---- MODULE Spec2Model ----
(***************************************************************************)
(* Model of the RTK multitasking program of src/src/main.c: main()'s       *)
(* start-up, the idle task, and the four periodic tasks (Timer, ACC,       *)
(* ACC FILTER, PLOT) that share global_acc_data under the semaphore        *)
(* SEM_SHARED_DATA.  The Sierra kernel is outside the repository: its      *)
(* period timer is the action Tick, its semaphore the set sem, and its     *)
(* scheduler is any interleaving of the steps of the tasks of priority 1,  *)
(* the idle task running when none of them can.                            *)
(***************************************************************************)
EXTENDS Integers, Sequences, FiniteSets, TLC

\* ------------------------------------------------------------- constants
IDLE == 0
TASK_TIMER == 1
TASK_ACC == 2
TASK_ACC_FILTER == 3
TASK_PLOT == 4

\* size of acc_array, the modulus of FilterTask's counter, the divisor of
\* the averages
FilterLen == 10
\* the modulus of PlottingTask's counter
PlotLen == 5
\* the divisor of the z value in the plot
PlotDiv == 8
\* the baseline row of the plot
PlotBase == 180
\* the column of the first plotted point, and the spacing of the points
PlotLeft == 205
PlotSpacing == 5

\* the content of a stack variable declared without an initializer, before
\* its first assignment (outside the int16_t range: no reading equals it)
Uninit == 32768

\* ---------------------------------------------------------------- bounds
\* period boundaries of a run of the whole program
MaxPeriod == 2
\* tasks that a period boundary may find late
MaxSlack == 1
\* period boundaries of a run of SamplingTask and FilterTask
MaxFilterPeriod == 11
\* period boundaries of a run of SamplingTask and PlottingTask
MaxPlotPeriod == 6
\* period boundaries of a run of FilterTask by itself
MaxAlonePeriod == 21
\* the small values of a buffer to average are -MaxMag..MaxMag
MaxMag == 2
\* the small values of a z to plot are -MaxPlotZ..MaxPlotZ
MaxPlotZ == 20
\* period boundaries of a run of FilterTask and PlottingTask
MaxCursorPeriod == 10

PeriodicTasks == {TASK_TIMER, TASK_ACC, TASK_ACC_FILTER, TASK_PLOT}
Tasks == {IDLE} \cup PeriodicTasks
Readers == {TASK_ACC_FILTER, TASK_PLOT}
Fields == {"x", "y", "z"}

\* the n-th triple of the series (1,2,3), (4,5,6), ..., (28,29,30), ...
Smp(n) == [x |-> 3 * n - 2, y |-> 3 * n - 1, z |-> 3 * n]
Neg(s) == [x |-> -s.x, y |-> -s.y, z |-> -s.z]
ZeroSample == [x |-> 0, y |-> 0, z |-> 0]
UninitSample == [x |-> Uninit, y |-> Uninit, z |-> Uninit]

VARIABLES
    mainpc,            \* main(): where it stands
    accelerometer,     \* sensor: what the latest call to open or initialize it has made of it
    pc,                \* each task: where it stands
    sem,               \* the tasks holding SEM_SHARED_DATA
    expired,           \* kernel: the task's period has expired, and it has not run since
    late,              \* kernel: the task was not waiting when its period expired
    deadline,          \* each task's local `deadline`: the status the wait returned
    out,               \* each task: the external calls of its latest step
    global_acc_data,
    orient,            \* sensor: the sign of what it measures (1 or -1)
    time,              \* timer_task_code
    local_acc_data,    \* task_acc_code
    acc_array, counter, sampled_ten_times, avg_x, avg_y, avg_z,  \* task_acc_filter_code
    local_pos, plot_counter, plot_pt,                            \* task_plot_code
    period,            \* history: period boundaries so far
    lates,             \* history: period boundaries that found a task late
    runs,              \* history: per task, the returns of wait_for_next_period
    turns,             \* history: per task, the loop bodies completed
    g_stamp,           \* history: per field of global_acc_data, the store it comes from
    stored,            \* history: the stores of SamplingTask, in order
    ld_stamp,          \* history: per reader and field of its copy, the store it comes from
    last_load,         \* history: per reader, its latest completed load
    loaded,            \* history: the loads of FilterTask, in order
    clears             \* history: the clear_screen_range calls, per region

mainVars == <<mainpc, accelerometer>>
kernelVars == <<expired, late, period, lates>>
timerVars == <<time>>
accVars == <<local_acc_data, orient>>
filterVars == <<acc_array, counter, sampled_ten_times, avg_x, avg_y, avg_z>>
plotVars == <<local_pos, plot_counter, plot_pt>>
cellVars == <<global_acc_data, g_stamp, stored>>
histVars == <<ld_stamp, last_load, loaded, clears>>
taskVars == <<sem, expired, late, deadline, out, global_acc_data, orient, time,
              local_acc_data, acc_array, counter, sampled_ten_times, avg_x,
              avg_y, avg_z, local_pos, plot_counter, plot_pt, period, lates,
              runs, turns, g_stamp, stored, ld_stamp, last_load, loaded, clears>>
vars == <<mainVars, pc, taskVars>>

\* integer division rounding toward minus infinity, which C's is not
TDivFloor(a, b) == a \div b

\* integer division as C performs it: truncation toward zero
TDiv(a, b) == IF a >= 0 THEN a \div b ELSE -((-a) \div b)

\* history: no load completed yet
NoLoad ==
    [val |-> UninitSample, stamp |-> [x |-> 0, y |-> 0, z |-> 0], period |-> 0,
     stores |-> 0]

Init ==
    /\ mainpc = "button"
    /\ accelerometer = "closed"
    /\ pc = [t \in Tasks |-> "none"]
    /\ sem = {}
    /\ expired = [t \in PeriodicTasks |-> FALSE]
    /\ late = [t \in PeriodicTasks |-> FALSE]
    /\ deadline = [t \in PeriodicTasks |-> 0]
    /\ out = [t \in Tasks |-> {}]
    /\ global_acc_data = ZeroSample
    /\ orient \in {1, -1}
    /\ time = 0
    /\ local_acc_data = UninitSample
    /\ acc_array = [i \in 0..(FilterLen - 1) |-> UninitSample]
    /\ counter = 0
    /\ sampled_ten_times = FALSE
    /\ avg_x = 0
    /\ avg_y = 0
    /\ avg_z = 0
    /\ local_pos = UninitSample
    /\ plot_counter = 0
    /\ plot_pt = <<>>
    /\ period = 0
    /\ lates = 0
    /\ runs = [t \in PeriodicTasks |-> 0]
    /\ turns = [t \in PeriodicTasks |-> 0]
    /\ g_stamp = [x |-> 0, y |-> 0, z |-> 0]
    /\ stored = <<>>
    /\ ld_stamp = [r \in Readers |-> [x |-> 0, y |-> 0, z |-> 0]]
    /\ last_load = [r \in Readers |-> NoLoad]
    /\ loaded = <<>>
    /\ clears = [chart |-> 0, average |-> 0]

\* ------------------------------------------------------------------ main
\* while (button == 3) button = 0x3 & IORD(...)
MainButton ==
    /\ mainpc = "button"
    /\ \E button \in 0..3 :
          mainpc' = IF button = 3 THEN "button" ELSE "open_dev"
    /\ UNCHANGED <<accelerometer, pc, taskVars>>

\* main calling accelerometer_open_dev once, whatever it returns
MainOpenDevOnce ==
    /\ mainpc = "open_dev"
    /\ \E ok \in BOOLEAN :
          accelerometer' = IF ok THEN "open" ELSE "open_failed"
    /\ mainpc' = "acc_init"
    /\ UNCHANGED <<pc, taskVars>>

\* while (!accelerometer_open_dev()) printf(...)
MainOpenDev ==
    /\ mainpc = "open_dev"
    /\ \E ok \in BOOLEAN :
          /\ accelerometer' = IF ok THEN "open" ELSE "open_failed"
          /\ mainpc' = IF ok THEN "acc_init" ELSE "open_dev"
    /\ UNCHANGED <<pc, taskVars>>

\* while (!accelerometer_init()) printf(...)
MainAccInit ==
    /\ mainpc = "acc_init"
    /\ \E ok \in BOOLEAN :
          /\ accelerometer' = IF ok THEN "ready" ELSE "init_failed"
          /\ mainpc' = IF ok THEN "create" ELSE "acc_init"
    /\ UNCHANGED <<pc, taskVars>>

\* the five task_create calls, every task READY_TASK_STATE
MainCreate ==
    /\ mainpc = "create"
    /\ mainpc' = "tsw_on"
    /\ pc' = [t \in Tasks |-> "start"]
    /\ UNCHANGED <<accelerometer, taskVars>>

\* tsw_on(): the tasks run from here on
MainTswOn ==
    /\ mainpc = "tsw_on"
    /\ mainpc' = "running"
    /\ UNCHANGED <<accelerometer, pc, taskVars>>

Running == mainpc = "running"

\* ---------------------------------------------------------------- kernel
\* A period boundary of the kernel's timer (every task sets the same period
\* of 50 ticks).  It concerns the tasks that have set their period, which
\* the tasks `sched` that the scheduler runs have all done.  It falls
\* between two turns of every task's loop; at most `slack` tasks are late,
\* not having run since the boundary before; it is the `horizon`-th
\* boundary at most.
Armed(t) == pc[t] \notin {"none", "start"}
Late(t) == Armed(t) /\ (expired[t] \/ pc[t] # "wait")

Tick(horizon, slack, sched) ==
    /\ Running
    /\ period < horizon
    /\ \A t \in sched : Armed(t)
    /\ \A t \in PeriodicTasks : Armed(t) => pc[t] = "wait"
    /\ Cardinality({t \in PeriodicTasks : Late(t)}) <= slack
    /\ period' = period + 1
    /\ late' = [t \in PeriodicTasks |-> Late(t)]
    /\ expired' = [t \in PeriodicTasks |-> Armed(t)]
    /\ lates' = IF \E t \in PeriodicTasks : Late(t) THEN lates + 1 ELSE lates
    /\ UNCHANGED <<mainVars, pc, sem, deadline, out, runs, turns, timerVars,
                   accVars, filterVars, plotVars, cellVars, histVars>>

\* the wait were it to return once more for a period that was missed
WaitReturnCatchUp(t) ==
    /\ Running
    /\ pc[t] = "wait"
    /\ expired[t]
    /\ deadline' = [deadline EXCEPT ![t] = IF late[t] THEN 1 ELSE 0]
    /\ expired' = [expired EXCEPT ![t] = late[t]]
    /\ late' = [late EXCEPT ![t] = FALSE]
    /\ runs' = [runs EXCEPT ![t] = @ + 1]
    /\ UNCHANGED <<period, lates>>

\* deadline = wait_for_next_period(): returns once the period has expired;
\* bit 0 of the status tells a missed deadline
WaitReturn(t) ==
    /\ Running
    /\ pc[t] = "wait"
    /\ expired[t]
    /\ deadline' = [deadline EXCEPT ![t] = IF late[t] THEN 1 ELSE 0]
    /\ expired' = [expired EXCEPT ![t] = FALSE]
    /\ late' = [late EXCEPT ![t] = FALSE]
    /\ runs' = [runs EXCEPT ![t] = @ + 1]
    /\ UNCHANGED <<period, lates>>

\* the report with its test inverted
MissReportInverted(status) ==
    IF status % 2 = 1 THEN {} ELSE {"printf Deadline miss"}

\* if (deadline.periodic_start_integer & 0x1) printf("Deadline miss: ...")
MissReport(status) ==
    IF status % 2 = 1 THEN {"printf Deadline miss"} ELSE {}

\* a take that is granted whoever holds the semaphore
SemTakeNoWait(t) ==
    sem' = sem \cup {t}

\* sem_take(SEM_SHARED_DATA): blocks while a task holds it
SemTake(t) ==
    /\ sem = {}
    /\ sem' = {t}

\* sem_release(SEM_SHARED_DATA)
SemRelease(t) ==
    sem' = sem \ {t}

\* the task goes to l, inside a turn of its loop
Goto(t, l) ==
    /\ pc' = [pc EXCEPT ![t] = l]
    /\ UNCHANGED <<runs, turns>>

\* the task goes to l on the return of its wait
Enter(t, l) ==
    /\ pc' = [pc EXCEPT ![t] = l]
    /\ UNCHANGED turns

\* the task ends a turn of its loop, back at its wait
Finish(t) ==
    /\ pc' = [pc EXCEPT ![t] = "wait"]
    /\ turns' = [turns EXCEPT ![t] = @ + 1]
    /\ UNCHANGED runs

Emit(t, calls) == out' = [out EXCEPT ![t] = calls]

\* ------------------------------------------------------------- idle task
\* a task of priority 1 with nothing to wait for: the idle task, of priority
\* 0, runs only when there is none
Ready(t) ==
    /\ ~(pc[t] = "wait" /\ ~expired[t])
    /\ ~(pc[t] = "take" /\ sem # {})

IdleRuns == Running /\ \A t \in PeriodicTasks : ~Ready(t)

IdleStart ==
    /\ IdleRuns
    /\ pc[IDLE] = "start"
    /\ pc' = [pc EXCEPT ![IDLE] = "loop"]
    /\ Emit(IDLE, {"printf Idle task started"})
    /\ UNCHANGED <<mainVars, sem, deadline, runs, turns, kernelVars, timerVars,
                   accVars, filterVars, plotVars, cellVars, histVars>>

\* one turn of its loop: for (i = 0; i < 500000; i++); printf(".\n")
IdleLoop ==
    /\ IdleRuns
    /\ pc[IDLE] = "loop"
    /\ pc' = [pc EXCEPT ![IDLE] = "loop"]
    /\ Emit(IDLE, {"printf ."})
    /\ UNCHANGED <<mainVars, sem, deadline, runs, turns, kernelVars, timerVars,
                   accVars, filterVars, plotVars, cellVars, histVars>>

\* ------------------------------------------------------------ timer task
\* init_period_time(50); time = 0
TimerStart ==
    /\ Running
    /\ pc[TASK_TIMER] = "start"
    /\ Goto(TASK_TIMER, "wait")
    /\ Emit(TASK_TIMER, {})
    /\ UNCHANGED <<mainVars, sem, deadline, kernelVars, timerVars, accVars,
                   filterVars, plotVars, cellVars, histVars>>

\* one turn of its loop: the wait, the deadline report, time++, the display
TimerPeriod ==
    /\ WaitReturn(TASK_TIMER)
    /\ time' = time + 1
    /\ pc' = [pc EXCEPT ![TASK_TIMER] = "wait"]
    /\ turns' = [turns EXCEPT ![TASK_TIMER] = @ + 1]
    /\ Emit(TASK_TIMER, {"wait_for_next_period", "tty_print", "int_print"}
                           \cup MissReport(deadline'[TASK_TIMER]))
    /\ UNCHANGED <<mainVars, sem, accVars, filterVars, plotVars, cellVars, histVars>>

\* -------------------------------------------------------------- ACC task
\* init_period_time(50)
AccStart ==
    /\ Running
    /\ pc[TASK_ACC] = "start"
    /\ Goto(TASK_ACC, "wait")
    /\ Emit(TASK_ACC, {})
    /\ UNCHANGED <<mainVars, sem, deadline, kernelVars, timerVars, accVars,
                   filterVars, plotVars, cellVars, histVars>>

\* what the sensor returns for the triple s
Measured(s) == IF orient = 1 THEN s ELSE Neg(s)

\* SamplingTask without its call of accelerometer_receive
AccWaitNoReceive(readings) ==
    /\ WaitReturn(TASK_ACC)
    /\ Enter(TASK_ACC, "take")
    /\ Emit(TASK_ACC, {"wait_for_next_period"} \cup MissReport(deadline'[TASK_ACC]))
    /\ UNCHANGED <<mainVars, sem, accVars, timerVars, filterVars, plotVars,
                   cellVars, histVars>>

\* the wait, the deadline report, and accelerometer_receive(&local_acc_data...)
\* measuring one of `readings`
AccWait(readings) ==
    /\ WaitReturn(TASK_ACC)
    /\ \E s \in readings : local_acc_data' = Measured(s)
    /\ Enter(TASK_ACC, "take")
    /\ Emit(TASK_ACC, {"wait_for_next_period", "accelerometer_receive"}
                         \cup MissReport(deadline'[TASK_ACC]))
    /\ UNCHANGED <<mainVars, sem, orient, timerVars, filterVars, plotVars,
                   cellVars, histVars>>

\* SamplingTask without its sem_take
AccTakeSkipped ==
    /\ Running
    /\ pc[TASK_ACC] = "take"
    /\ Goto(TASK_ACC, "copy_x")
    /\ Emit(TASK_ACC, {})
    /\ UNCHANGED <<mainVars, sem, deadline, kernelVars, timerVars, accVars,
                   filterVars, plotVars, cellVars, histVars>>

AccTake ==
    /\ Running
    /\ pc[TASK_ACC] = "take"
    /\ SemTake(TASK_ACC)
    /\ Goto(TASK_ACC, "copy_x")
    /\ Emit(TASK_ACC, {})
    /\ UNCHANGED <<mainVars, deadline, kernelVars, timerVars, accVars, filterVars,
                   plotVars, cellVars, histVars>>

\* global_acc_data = local_acc_data, one field at a time
AccCopy(f, next) ==
    /\ Running
    /\ pc[TASK_ACC] = "copy_" \o f
    /\ global_acc_data' = [global_acc_data EXCEPT ![f] = local_acc_data[f]]
    /\ g_stamp' = [g_stamp EXCEPT ![f] = Len(stored) + 1]
    /\ stored' = IF f = "z"
                 THEN Append(stored, [val |-> local_acc_data, period |-> period])
                 ELSE stored
    /\ Goto(TASK_ACC, next)
    /\ Emit(TASK_ACC, {})
    /\ UNCHANGED <<mainVars, sem, deadline, kernelVars, timerVars, accVars,
                   filterVars, plotVars, histVars>>

AccCopyX == AccCopy("x", "copy_y")
AccCopyY == AccCopy("y", "copy_z")
AccCopyZ == AccCopy("z", "release")

\* SamplingTask without its sem_release
AccReleaseKept ==
    /\ Running
    /\ pc[TASK_ACC] = "release"
    /\ Goto(TASK_ACC, "display")
    /\ Emit(TASK_ACC, {})
    /\ UNCHANGED <<mainVars, sem, deadline, kernelVars, timerVars, accVars,
                   filterVars, plotVars, cellVars, histVars>>

AccRelease ==
    /\ Running
    /\ pc[TASK_ACC] = "release"
    /\ SemRelease(TASK_ACC)
    /\ Goto(TASK_ACC, "display")
    /\ Emit(TASK_ACC, {})
    /\ UNCHANGED <<mainVars, deadline, kernelVars, timerVars, accVars, filterVars,
                   plotVars, cellVars, histVars>>

\* the display of SamplingTask were its loop left after one turn
AccDisplayOnce ==
    /\ Running
    /\ pc[TASK_ACC] = "display"
    /\ pc' = [pc EXCEPT ![TASK_ACC] = "exit"]
    /\ turns' = [turns EXCEPT ![TASK_ACC] = @ + 1]
    /\ Emit(TASK_ACC, {"tty_print", "int_print"})
    /\ UNCHANGED <<mainVars, sem, deadline, runs, kernelVars, timerVars, accVars,
                   filterVars, plotVars, cellVars, histVars>>

\* the tty_print and int_print calls showing local_acc_data
AccDisplay ==
    /\ Running
    /\ pc[TASK_ACC] = "display"
    /\ Finish(TASK_ACC)
    /\ Emit(TASK_ACC, {"tty_print", "int_print"})
    /\ UNCHANGED <<mainVars, sem, deadline, kernelVars, timerVars, accVars,
                   filterVars, plotVars, cellVars, histVars>>

\* ------------------------------------------------------- ACC FILTER task
\* init_period_time(50); counter = 0; sampled_ten_times = false; avg_* = 0
FilterStart ==
    /\ Running
    /\ pc[TASK_ACC_FILTER] = "start"
    /\ Goto(TASK_ACC_FILTER, "wait")
    /\ Emit(TASK_ACC_FILTER, {})
    /\ UNCHANGED <<mainVars, sem, deadline, kernelVars, timerVars, accVars,
                   filterVars, plotVars, cellVars, histVars>>

FilterWait ==
    /\ WaitReturn(TASK_ACC_FILTER)
    /\ Enter(TASK_ACC_FILTER, "take")
    /\ Emit(TASK_ACC_FILTER, {"wait_for_next_period"}
                                \cup MissReport(deadline'[TASK_ACC_FILTER]))
    /\ UNCHANGED <<mainVars, sem, timerVars, accVars, filterVars, plotVars,
                   cellVars, histVars>>

\* FilterTask without its sem_take
FilterTakeSkipped ==
    /\ Running
    /\ pc[TASK_ACC_FILTER] = "take"
    /\ Goto(TASK_ACC_FILTER, "copy_x")
    /\ Emit(TASK_ACC_FILTER, {})
    /\ UNCHANGED <<mainVars, sem, deadline, kernelVars, timerVars, accVars,
                   filterVars, plotVars, cellVars, histVars>>

FilterTake ==
    /\ Running
    /\ pc[TASK_ACC_FILTER] = "take"
    /\ SemTake(TASK_ACC_FILTER)
    /\ Goto(TASK_ACC_FILTER, "copy_x")
    /\ Emit(TASK_ACC_FILTER, {})
    /\ UNCHANGED <<mainVars, deadline, kernelVars, timerVars, accVars, filterVars,
                   plotVars, cellVars, histVars>>

\* history: reader r has copied field f of global_acc_data; with z the load
\* is complete, and `val` is what it copied out
NoteLoad(r, f, val) ==
    /\ ld_stamp' = [ld_stamp EXCEPT ![r][f] = g_stamp[f]]
    /\ last_load' = IF f = "z"
                    THEN [last_load EXCEPT ![r] =
                            [val |-> val, stamp |-> ld_stamp'[r],
                             period |-> period, stores |-> Len(stored)]]
                    ELSE last_load
    /\ loaded' = IF f = "z" /\ r = TASK_ACC_FILTER
                 THEN Append(loaded, val)
                 ELSE loaded
    /\ UNCHANGED clears

\* the copy of FilterTask were it always into the first slot
FilterCopyFirstSlot(f, next) ==
    /\ Running
    /\ pc[TASK_ACC_FILTER] = "copy_" \o f
    /\ acc_array' = [acc_array EXCEPT ![0][f] = global_acc_data[f]]
    /\ NoteLoad(TASK_ACC_FILTER, f, acc_array'[0])
    /\ Goto(TASK_ACC_FILTER, next)
    /\ Emit(TASK_ACC_FILTER, {})
    /\ UNCHANGED <<mainVars, sem, deadline, kernelVars, timerVars, accVars, counter,
                   sampled_ten_times, avg_x, avg_y, avg_z, plotVars, cellVars>>

\* the copy of FilterTask with its two sides exchanged
FilterCopyBack(f, next) ==
    /\ Running
    /\ pc[TASK_ACC_FILTER] = "copy_" \o f
    /\ global_acc_data' = [global_acc_data EXCEPT ![f] = acc_array[counter][f]]
    /\ Goto(TASK_ACC_FILTER, next)
    /\ Emit(TASK_ACC_FILTER, {})
    /\ UNCHANGED <<mainVars, sem, deadline, kernelVars, timerVars, accVars,
                   filterVars, plotVars, g_stamp, stored, histVars>>

\* acc_array[counter] = global_acc_data, one field at a time
FilterCopy(f, next) ==
    /\ Running
    /\ pc[TASK_ACC_FILTER] = "copy_" \o f
    /\ acc_array' = [acc_array EXCEPT ![counter][f] = global_acc_data[f]]
    /\ NoteLoad(TASK_ACC_FILTER, f, acc_array'[counter])
    /\ Goto(TASK_ACC_FILTER, next)
    /\ Emit(TASK_ACC_FILTER, {})
    /\ UNCHANGED <<mainVars, sem, deadline, kernelVars, timerVars, accVars, counter,
                   sampled_ten_times, avg_x, avg_y, avg_z, plotVars, cellVars>>

FilterCopyX == FilterCopy("x", "copy_y")
FilterCopyY == FilterCopy("y", "copy_z")
FilterCopyZ == FilterCopy("z", "release")

FilterRelease ==
    /\ Running
    /\ pc[TASK_ACC_FILTER] = "release"
    /\ SemRelease(TASK_ACC_FILTER)
    /\ Goto(TASK_ACC_FILTER, "post")
    /\ Emit(TASK_ACC_FILTER, {})
    /\ UNCHANGED <<mainVars, deadline, kernelVars, timerVars, accVars, filterVars,
                   plotVars, cellVars, histVars>>

\* for (i = 0; i < 10; i++) avg += acc_array[i].f, from avg = 0
RECURSIVE AxisSum(_, _, _)
AxisSum(arr, f, n) ==
    IF n = 0 THEN 0 ELSE AxisSum(arr, f, n - 1) + arr[n - 1][f]

\* the average were the sum kept in 16 bits
AxisAvgNarrow(arr, f) ==
    TDiv(((AxisSum(arr, f, FilterLen) + 32768) % 65536) - 32768, FilterLen)

\* the average of one axis over the whole of acc_array
AxisAvg(arr, f) == TDiv(AxisSum(arr, f, FilterLen), FilterLen)

\* the branch with its two tests in the other order
FilterBranchWrapFirst(primed, cnt) ==
    IF cnt = FilterLen - 1 THEN "prime"
    ELSE IF primed THEN "average"
    ELSE "sampling"

\* the branch were the average taken in the execution that fills the buffer
FilterBranchEager(primed, cnt) ==
    IF primed \/ cnt = FilterLen - 1 THEN "average" ELSE "sampling"

\* the branch were the average taken in every execution
FilterBranchAlways(primed, cnt) == "average"

\* if (sampled_ten_times) ... else if (counter == 9) ... else ...
FilterBranch(primed, cnt) ==
    IF primed THEN "average"
    ELSE IF cnt = FilterLen - 1 THEN "prime"
    ELSE "sampling"

\* the display with the indicator still rendered by the priming execution
FilterRenderIndicatorKept(branch) ==
    CASE branch = "average" -> {"tty_print", "int_print average"}
      [] branch = "prime" -> {"tty_print", "clear_screen_range average",
                              "tty_print sampling..."}
      [] OTHER -> {"tty_print", "tty_print sampling..."}

\* what the loop body puts on the display: the label of the task, then the
\* averages, the cleared region or the "sampling..." indicator
FilterRender(branch) ==
    CASE branch = "average" -> {"tty_print", "int_print average"}
      [] branch = "prime" -> {"tty_print", "clear_screen_range average"}
      [] OTHER -> {"tty_print", "tty_print sampling..."}

\* the rest of the loop body: the label, then the average, the priming or
\* the "sampling..." indicator, then the counter
FilterPost ==
    /\ Running
    /\ pc[TASK_ACC_FILTER] = "post"
    /\ LET branch == FilterBranch(sampled_ten_times, counter) IN
         /\ avg_x' = IF branch = "average" THEN AxisAvg(acc_array, "x") ELSE avg_x
         /\ avg_y' = IF branch = "average" THEN AxisAvg(acc_array, "y") ELSE avg_y
         /\ avg_z' = IF branch = "average" THEN AxisAvg(acc_array, "z") ELSE avg_z
         /\ sampled_ten_times' = IF branch = "prime" THEN TRUE ELSE sampled_ten_times
         /\ clears' = IF branch = "prime"
                      THEN [clears EXCEPT !.average = @ + 1]
                      ELSE clears
         /\ Emit(TASK_ACC_FILTER, FilterRender(branch))
    /\ counter' = (counter + 1) % FilterLen
    /\ Finish(TASK_ACC_FILTER)
    /\ UNCHANGED <<mainVars, sem, deadline, kernelVars, timerVars, accVars,
                   acc_array, plotVars, cellVars, ld_stamp, last_load, loaded>>

\* ------------------------------------------------------------- PLOT task
\* init_period_time(50); counter = 0
PlotStart ==
    /\ Running
    /\ pc[TASK_PLOT] = "start"
    /\ Goto(TASK_PLOT, "wait")
    /\ Emit(TASK_PLOT, {})
    /\ UNCHANGED <<mainVars, sem, deadline, kernelVars, timerVars, accVars,
                   filterVars, plotVars, cellVars, histVars>>

\* if (counter == 0) clear_screen_range(170, 125, 319, 239)
ChartClear(cnt) == IF cnt = 0 THEN {"clear_screen_range chart"} ELSE {}

\* the wait, the deadline report, the clear when counter == 0, the label
PlotWait ==
    /\ WaitReturn(TASK_PLOT)
    /\ clears' = [clears EXCEPT !.chart = @ + Cardinality(ChartClear(plot_counter))]
    /\ Enter(TASK_PLOT, "take")
    /\ Emit(TASK_PLOT, {"wait_for_next_period", "tty_print"}
                          \cup MissReport(deadline'[TASK_PLOT])
                          \cup ChartClear(plot_counter))
    /\ UNCHANGED <<mainVars, sem, timerVars, accVars, filterVars, plotVars,
                   cellVars, ld_stamp, last_load, loaded>>

\* PlottingTask printing its label after its sem_take
PlotTakeLabelled ==
    /\ Running
    /\ pc[TASK_PLOT] = "take"
    /\ SemTake(TASK_PLOT)
    /\ Goto(TASK_PLOT, "copy_x")
    /\ Emit(TASK_PLOT, {"tty_print"})
    /\ UNCHANGED <<mainVars, deadline, kernelVars, timerVars, accVars, filterVars,
                   plotVars, cellVars, histVars>>

PlotTake ==
    /\ Running
    /\ pc[TASK_PLOT] = "take"
    /\ SemTake(TASK_PLOT)
    /\ Goto(TASK_PLOT, "copy_x")
    /\ Emit(TASK_PLOT, {})
    /\ UNCHANGED <<mainVars, deadline, kernelVars, timerVars, accVars, filterVars,
                   plotVars, cellVars, histVars>>

\* local_pos = global_acc_data, one field at a time
PlotCopy(f, next) ==
    /\ Running
    /\ pc[TASK_PLOT] = "copy_" \o f
    /\ local_pos' = [local_pos EXCEPT ![f] = global_acc_data[f]]
    /\ NoteLoad(TASK_PLOT, f, local_pos')
    /\ Goto(TASK_PLOT, next)
    /\ Emit(TASK_PLOT, {})
    /\ UNCHANGED <<mainVars, sem, deadline, kernelVars, timerVars, accVars,
                   filterVars, plot_counter, plot_pt, cellVars>>

PlotCopyX == PlotCopy("x", "copy_y")
PlotCopyY == PlotCopy("y", "copy_z")
PlotCopyZ == PlotCopy("z", "release")

PlotRelease ==
    /\ Running
    /\ pc[TASK_PLOT] = "release"
    /\ SemRelease(TASK_PLOT)
    /\ Goto(TASK_PLOT, "draw")
    /\ Emit(TASK_PLOT, {})
    /\ UNCHANGED <<mainVars, deadline, kernelVars, timerVars, accVars, filterVars,
                   plotVars, cellVars, histVars>>

\* the counter without its modulus
PlotAdvanceNoWrap(cnt) == cnt + 1

\* counter = (counter + 1) % 5
PlotAdvance(cnt) == (cnt + 1) % PlotLen

\* 205 + (5 * counter)
PlotX(cnt) == PlotLeft + PlotSpacing * cnt

\* the row of the point without the inversion
PlotYDown(z) == PlotBase + TDiv(z, PlotDiv)

\* 180 + ((local_pos.z / 8) * (-1))
PlotY(z) == PlotBase + TDiv(z, PlotDiv) * (-1)

\* the baseline, the point for local_pos.z, then the counter
PlotDraw ==
    /\ Running
    /\ pc[TASK_PLOT] = "draw"
    /\ plot_pt' = <<PlotX(plot_counter), PlotY(local_pos.z)>>
    /\ plot_counter' = PlotAdvance(plot_counter)
    /\ Finish(TASK_PLOT)
    /\ Emit(TASK_PLOT, {"tty_print", "draw_hline", "draw_filled_circle"})
    /\ UNCHANGED <<mainVars, sem, deadline, kernelVars, timerVars, accVars,
                   filterVars, local_pos, cellVars, histVars>>

\* --------------------------------------------------------- specifications
\* the series the sensor follows: its n-th reading measures Smp(n), but for
\* the reading after the first FilterLen ones, which may also be far off it
OffSeries == 2 * FilterLen + 1
NextReading ==
    IF Len(stored) = FilterLen
    THEN {Smp(FilterLen + 1), Smp(OffSeries)}
    ELSE {Smp(Len(stored) + 1)}

\* the whole program
Next ==
    \/ MainButton \/ MainOpenDev \/ MainAccInit \/ MainCreate \/ MainTswOn
    \/ Tick(MaxPeriod, MaxSlack, PeriodicTasks)
    \/ IdleStart \/ IdleLoop
    \/ TimerStart \/ TimerPeriod
    \/ AccStart \/ AccWait(NextReading) \/ AccTake \/ AccCopyX \/ AccCopyY
    \/ AccCopyZ \/ AccRelease \/ AccDisplay
    \/ FilterStart \/ FilterWait \/ FilterTake \/ FilterCopyX \/ FilterCopyY
    \/ FilterCopyZ \/ FilterRelease \/ FilterPost
    \/ PlotStart \/ PlotWait \/ PlotTake \/ PlotCopyX \/ PlotCopyY \/ PlotCopyZ
    \/ PlotRelease \/ PlotDraw

Spec == Init /\ [][Next]_vars

\* the runs in which the scheduler runs SamplingTask and FilterTask only and
\* no task is late, over the periods it takes to prime the buffer and average
NextFilter ==
    \/ MainButton \/ MainOpenDev \/ MainAccInit \/ MainCreate \/ MainTswOn
    \/ Tick(MaxFilterPeriod, 0, {TASK_ACC, TASK_ACC_FILTER})
    \/ AccStart \/ AccWait(NextReading) \/ AccTake \/ AccCopyX \/ AccCopyY
    \/ AccCopyZ \/ AccRelease \/ AccDisplay
    \/ FilterStart \/ FilterWait \/ FilterTake \/ FilterCopyX \/ FilterCopyY
    \/ FilterCopyZ \/ FilterRelease \/ FilterPost

SpecFilter == Init /\ [][NextFilter]_vars

\* the runs in which the scheduler runs SamplingTask and PlottingTask only,
\* over the periods it takes the chart to wrap
NextPlot ==
    \/ MainButton \/ MainOpenDev \/ MainAccInit \/ MainCreate \/ MainTswOn
    \/ Tick(MaxPlotPeriod, MaxSlack, {TASK_ACC, TASK_PLOT})
    \/ AccStart \/ AccWait(NextReading) \/ AccTake \/ AccCopyX \/ AccCopyY
    \/ AccCopyZ \/ AccRelease \/ AccDisplay
    \/ PlotStart \/ PlotWait \/ PlotTake \/ PlotCopyX \/ PlotCopyY \/ PlotCopyZ
    \/ PlotRelease \/ PlotDraw

SpecPlot == Init /\ [][NextPlot]_vars

\* the runs in which the scheduler runs FilterTask only, over the periods it
\* takes its counter to wrap twice
NextFilterAlone ==
    \/ MainButton \/ MainOpenDev \/ MainAccInit \/ MainCreate \/ MainTswOn
    \/ Tick(MaxAlonePeriod, MaxSlack, {TASK_ACC_FILTER})
    \/ FilterStart \/ FilterWait \/ FilterTake \/ FilterCopyX \/ FilterCopyY
    \/ FilterCopyZ \/ FilterRelease \/ FilterPost

SpecFilterAlone == Init /\ [][NextFilterAlone]_vars

\* the runs in which the scheduler runs FilterTask and PlottingTask only,
\* over the periods it takes both counters to wrap
NextCursors ==
    \/ MainButton \/ MainOpenDev \/ MainAccInit \/ MainCreate \/ MainTswOn
    \/ Tick(MaxCursorPeriod, MaxSlack, {TASK_ACC_FILTER, TASK_PLOT})
    \/ FilterStart \/ FilterWait \/ FilterTake \/ FilterCopyX \/ FilterCopyY
    \/ FilterCopyZ \/ FilterRelease \/ FilterPost
    \/ PlotStart \/ PlotWait \/ PlotTake \/ PlotCopyX \/ PlotCopyY \/ PlotCopyZ
    \/ PlotRelease \/ PlotDraw

SpecCursors == Init /\ [][NextCursors]_vars

\* the range of int16_t, the type of the fields of position_t
Int16Min == -32768
Int16Max == 32767

\* the averaging of FilterTask by itself, on any buffer of a family: each of
\* the columns x and y holds one value in its first half and one in its
\* second, either an end of the int16_t range or a small value, and the
\* column z one value throughout
AvgVals == {Int16Min, Int16Max} \cup (-MaxMag..MaxMag)
Columns ==
    {[i \in 0..(FilterLen - 1) |-> IF 2 * i < FilterLen THEN a ELSE b] :
        a \in AvgVals, b \in AvgVals}
FlatColumns == {[i \in 0..(FilterLen - 1) |-> v] : v \in {Int16Min, 0, Int16Max}}

\* FilterTask in its 11th execution, the buffer primed and its load made,
\* about to take the branch of the average (the histories are not kept)
InitAvg ==
    /\ mainpc = "running"
    /\ accelerometer = "ready"
    /\ pc = [t \in Tasks |-> IF t = TASK_ACC_FILTER THEN "post" ELSE "start"]
    /\ sem = {}
    /\ expired = [t \in PeriodicTasks |-> FALSE]
    /\ late = [t \in PeriodicTasks |-> FALSE]
    /\ deadline = [t \in PeriodicTasks |-> 0]
    /\ out = [t \in Tasks |-> {}]
    /\ global_acc_data = ZeroSample
    /\ orient = 1
    /\ time = 0
    /\ local_acc_data = UninitSample
    /\ \E cx \in Columns, cy \in Columns, cz \in FlatColumns :
          acc_array = [i \in 0..(FilterLen - 1) |->
                          [x |-> cx[i], y |-> cy[i], z |-> cz[i]]]
    /\ counter = 0
    /\ sampled_ten_times = TRUE
    /\ avg_x = 0
    /\ avg_y = 0
    /\ avg_z = 0
    /\ local_pos = UninitSample
    /\ plot_counter = 0
    /\ plot_pt = <<>>
    /\ period = FilterLen + 1
    /\ lates = 0
    /\ runs = [t \in PeriodicTasks |-> IF t = TASK_ACC_FILTER THEN FilterLen + 1 ELSE 0]
    /\ turns = [t \in PeriodicTasks |-> IF t = TASK_ACC_FILTER THEN FilterLen ELSE 0]
    /\ g_stamp = [x |-> 0, y |-> 0, z |-> 0]
    /\ stored = <<>>
    /\ ld_stamp = [r \in Readers |-> [x |-> 0, y |-> 0, z |-> 0]]
    /\ last_load = [r \in Readers |-> NoLoad]
    /\ loaded = <<>>
    /\ clears = [chart |-> 0, average |-> 1]

NextAvg == FilterPost

\* the load and the drawing of PlottingTask by itself, for any z of a
\* family in the cell and any value of the counter: the task in an execution,
\* about to take the semaphore
PlotZs == {Int16Min, Int16Max} \cup (-MaxPlotZ..MaxPlotZ)

InitPoint ==
    /\ mainpc = "running"
    /\ accelerometer = "ready"
    /\ pc = [t \in Tasks |-> IF t = TASK_PLOT THEN "take" ELSE "start"]
    /\ sem = {}
    /\ expired = [t \in PeriodicTasks |-> FALSE]
    /\ late = [t \in PeriodicTasks |-> FALSE]
    /\ deadline = [t \in PeriodicTasks |-> 0]
    /\ out = [t \in Tasks |-> {}]
    /\ \E z \in PlotZs : global_acc_data = [x |-> 0, y |-> 0, z |-> z]
    /\ orient = 1
    /\ time = 0
    /\ local_acc_data = UninitSample
    /\ acc_array = [i \in 0..(FilterLen - 1) |-> UninitSample]
    /\ counter = 0
    /\ sampled_ten_times = FALSE
    /\ avg_x = 0
    /\ avg_y = 0
    /\ avg_z = 0
    /\ local_pos = UninitSample
    /\ plot_counter \in 0..(PlotLen - 1)
    /\ plot_pt = <<>>
    /\ period = plot_counter + 1
    /\ lates = 0
    /\ runs = [t \in PeriodicTasks |-> IF t = TASK_PLOT THEN plot_counter + 1 ELSE 0]
    /\ turns = [t \in PeriodicTasks |-> IF t = TASK_PLOT THEN plot_counter ELSE 0]
    /\ g_stamp = [x |-> 0, y |-> 0, z |-> 0]
    /\ stored = <<>>
    /\ ld_stamp = [r \in Readers |-> [x |-> 0, y |-> 0, z |-> 0]]
    /\ last_load = [r \in Readers |-> NoLoad]
    /\ loaded = <<>>
    /\ clears = [chart |-> 1, average |-> 0]

NextPoint ==
    \/ PlotTake \/ PlotCopyX \/ PlotCopyY \/ PlotCopyZ \/ PlotRelease \/ PlotDraw

SpecPoint == InitPoint /\ [][NextPoint]_vars

SpecAvg == InitAvg /\ [][NextAvg]_vars

\* the scheduling of the whole program with the kernel's guarantees: a task
\* that holds the semaphore is ready and goes on running, and a task waiting
\* for the semaphore gets it if it is free again and again
Fairness ==
    /\ WF_vars(AccCopyX \/ AccCopyY \/ AccCopyZ \/ AccRelease)
    /\ WF_vars(FilterCopyX \/ FilterCopyY \/ FilterCopyZ \/ FilterRelease)
    /\ WF_vars(PlotCopyX \/ PlotCopyY \/ PlotCopyZ \/ PlotRelease)
    /\ SF_vars(AccTake)
    /\ SF_vars(FilterTake)
    /\ SF_vars(PlotTake)

SpecLive == Spec /\ Fairness

\* the scheduling of SpecLive, and moreover: a periodic task that is ready
\* goes on running, whatever its step
FairTasks ==
    /\ WF_vars(TimerStart \/ TimerPeriod)
    /\ WF_vars(AccStart \/ AccWait(NextReading) \/ AccDisplay)
    /\ WF_vars(FilterStart \/ FilterWait \/ FilterPost)
    /\ WF_vars(PlotStart \/ PlotWait \/ PlotDraw)

SpecFair == SpecLive /\ FairTasks

\* ----------------------------------------------------------------- claims
CriticalSection == {"copy_x", "copy_y", "copy_z", "release"}
Sharers == {TASK_ACC, TASK_ACC_FILTER, TASK_PLOT}

\* C1: every value that a load of FilterTask or PlottingTask copies out has
\* its x, y and z from one and the same store of SamplingTask, or all three
\* from the initial content of global_acc_data: its three fields carry the
\* same store number, and the value is the value of that store.
NoTornLoad ==
    \A r \in Readers :
        last_load[r] # NoLoad =>
            LET s == last_load[r].stamp IN
                /\ s.x = s.y
                /\ s.y = s.z
                /\ s.z <= Len(stored)
                /\ last_load[r].val =
                       IF s.z = 0 THEN ZeroSample ELSE stored[s.z].val

\* C1, its case: a reader has just copied the first store out whole while
\* SamplingTask waits for the semaphore with the next sample to store
LoadAmidStores ==
    /\ pc[TASK_ACC] = "take"
    /\ Len(stored) = 1
    /\ local_acc_data # stored[1].val
    /\ \E r \in Readers :
          /\ pc[r] = "release"
          /\ last_load[r].stamp.z = 1
          /\ last_load[r].period = period

\* C2: at most one task holds SEM_SHARED_DATA, only SamplingTask, FilterTask
\* and PlottingTask ever do, and a task stands at its copy of
\* global_acc_data or at its sem_release exactly when it holds it.
MutualExclusion ==
    /\ Cardinality(sem) <= 1
    /\ sem \subseteq Sharers
    /\ \A t \in Sharers : (pc[t] \in CriticalSection) <=> (t \in sem)
    /\ \A t \in Tasks \ Sharers : pc[t] \notin CriticalSection

\* C2, its case: PlottingTask is in the middle of its copy while the two
\* other tasks wait for the semaphore
CopyWhileOthersWait ==
    /\ sem = {TASK_PLOT}
    /\ pc[TASK_PLOT] = "copy_y"
    /\ pc[TASK_ACC] = "take"
    /\ pc[TASK_ACC_FILTER] = "take"

\* the sum of field f over the last n values of the sequence s
RECURSIVE TailSum(_, _, _)
TailSum(s, f, n) ==
    IF n = 0 THEN 0 ELSE s[Len(s)][f] + TailSum(SubSeq(s, 1, Len(s) - 1), f, n - 1)

\* q is the quotient of total by d truncated toward zero
IsTruncQuot(total, d, q) ==
    IF total >= 0
    THEN q >= 0 /\ q * d <= total /\ total < (q + 1) * d
    ELSE q <= 0 /\ q * d >= total /\ total > (q - 1) * d

Averaged == "int_print average" \in out[TASK_ACC_FILTER]

SeriesLoaded ==
    /\ orient = 1
    /\ Len(loaded) >= FilterLen
    /\ \A i \in 1..FilterLen : loaded[i] = Smp(i)

NoAverageBeforePrimed ==
    runs[TASK_ACC_FILTER] <= FilterLen - 1 =>
        /\ <<avg_x, avg_y, avg_z>> = <<0, 0, 0>>
        /\ ~sampled_ten_times
        /\ ~Averaged

\* C5, its case: FilterTask has ended its 9th execution, having loaded nine
\* samples that are not zero, and has shown "sampling..."
NinthExecutionDone ==
    /\ turns[TASK_ACC_FILTER] = FilterLen - 1
    /\ pc[TASK_ACC_FILTER] = "wait"
    /\ "tty_print sampling..." \in out[TASK_ACC_FILTER]
    /\ \A i \in 0..(FilterLen - 2) : acc_array[i].z # 0 /\ acc_array[i].z # Uninit

ChartCleared == "clear_screen_range chart" \in out[TASK_PLOT]

\* C6 as the specification states it: the chart area is cleared in exactly
\* the steps in which PlottingTask's counter goes from 4 back to 0, and in
\* its first execution.
ClearAtWrap ==
    [][(clears'.chart # clears.chart)
        <=> \/ plot_counter = PlotLen - 1 /\ plot_counter' = 0
            \/ runs[TASK_PLOT] = 0 /\ runs'[TASK_PLOT] = 1]_vars

\* C6, amended: PlottingTask's counter is the number of its completed
\* executions modulo 5, so it takes the values 0,1,2,3,4,0,1,...; the chart
\* area is cleared at the start of exactly the executions that begin with the
\* counter at 0, the first one and the one that follows each step from 4 back
\* to 0, a period after that step: after n executions begun, it has been
\* cleared once for every five of them, the incomplete five included.
ClearAtSweepStart ==
    /\ plot_counter = turns[TASK_PLOT] % PlotLen
    /\ clears.chart = (runs[TASK_PLOT] + PlotLen - 1) \div PlotLen
    /\ ChartCleared <=>
          /\ pc[TASK_PLOT] = "take"
          /\ runs[TASK_PLOT] % PlotLen = 1
    /\ plot_pt # <<>> =>
          plot_pt[1] = PlotLeft + PlotSpacing * ((turns[TASK_PLOT] - 1) % PlotLen)

\* C6, its case: the counter has gone from 4 back to 0 and PlottingTask waits
\* for its next period without the chart area having been cleared again
WrappedNotYetCleared ==
    /\ turns[TASK_PLOT] = PlotLen
    /\ plot_counter = 0
    /\ pc[TASK_PLOT] = "wait"
    /\ clears.chart = 1
    /\ plot_pt[1] = PlotLeft + PlotSpacing * (PlotLen - 1)

\* C7: for each of the four periodic tasks, the step in which
\* wait_for_next_period returns prints "Deadline miss" exactly when bit 0 of
\* the status it returned is set; whatever the status, the task is then in
\* the body of its loop or back at its wait with the body completed, once per
\* return.
MissReportedAndLoopGoesOn ==
    \A t \in PeriodicTasks :
        /\ "wait_for_next_period" \in out[t] =>
              (("printf Deadline miss" \in out[t]) <=> (deadline[t] % 2 = 1))
        /\ "printf Deadline miss" \in out[t] => "wait_for_next_period" \in out[t]
        /\ pc[t] \in {"none", "start", "wait", "take", "copy_x", "copy_y", "copy_z",
                      "release", "display", "post", "draw"}
        /\ turns[t] = IF pc[t] \in {"none", "start", "wait"}
                      THEN runs[t]
                      ELSE runs[t] - 1

\* C7, its case: SamplingTask's wait has returned a missed deadline, and the
\* task has gone through its whole loop body and waits again
MissedAndWaitingAgain ==
    /\ deadline[TASK_ACC] = 1
    /\ pc[TASK_ACC] = "wait"
    /\ turns[TASK_ACC] = runs[TASK_ACC]
    /\ out[TASK_ACC] = {"tty_print", "int_print"}

\* C8: the latest step of a task that holds SEM_SHARED_DATA has made no
\* external call: between its sem_take and its sem_release a task does
\* nothing but copy the sample.
OnlyCopyUnderLock ==
    \A t \in sem : out[t] = {}

\* C8, its case: a task holds the semaphore and has completed its copy
CopyDoneUnderLock ==
    \E t \in sem : pc[t] = "release" /\ out[t] = {}

\* C9: a task that waits for the semaphore waits for a holder that is at its
\* copy or its sem_release, so the tasks are never all blocked; a holder is
\* never at its wait for the next period nor at a sem_take; and under the
\* fair scheduling of SpecLive every sem_take of SamplingTask, FilterTask and
\* PlottingTask is granted, and every holder releases.
NoDeadlock ==
    /\ [](\A t \in Sharers :
             /\ (pc[t] = "take" /\ sem # {}) =>
                   \E h \in sem : h # t /\ pc[h] \in CriticalSection
             /\ t \in sem => pc[t] \notin {"wait", "take"})
    /\ [](\E t \in Tasks : Ready(t))
    /\ \A t \in Sharers :
          /\ (pc[t] = "take") ~> (t \in sem)
          /\ (t \in sem) ~> (t \notin sem)

\* C9, its case: SamplingTask holds the semaphore while the two other tasks
\* wait for it
HolderAndTwoWaiters ==
    /\ sem = {TASK_ACC}
    /\ pc[TASK_ACC_FILTER] = "take"
    /\ pc[TASK_PLOT] = "take"

Stepped(t) ==
    \/ pc'[t] # pc[t]
    \/ out'[t] # out[t]
    \/ t \in PeriodicTasks /\ runs'[t] # runs[t]

\* C11: global_acc_data changes only in a step of SamplingTask's copy, made
\* holding the semaphore; the steps of FilterTask and PlottingTask leave it
\* as it is; the steps of the Timer task and of the Idle task leave it and
\* the semaphore as they are, and neither task is ever at a sem_take, a copy
\* or a sem_release; the Idle task never calls wait_for_next_period.
OnlySamplingTaskWrites ==
    /\ [][/\ global_acc_data' # global_acc_data =>
                /\ pc[TASK_ACC] \in {"copy_x", "copy_y", "copy_z"}
                /\ pc'[TASK_ACC] # pc[TASK_ACC]
                /\ sem = {TASK_ACC}
          /\ \A r \in Readers :
                Stepped(r) => global_acc_data' = global_acc_data
          /\ \A t \in {TASK_TIMER, IDLE} :
                Stepped(t) => global_acc_data' = global_acc_data /\ sem' = sem
          /\ sem' # sem => \E t \in Sharers : Stepped(t)]_vars
    /\ [](/\ pc[TASK_TIMER] \in {"none", "start", "wait"}
          /\ pc[IDLE] \in {"none", "start", "loop"}
          /\ sem \cap {TASK_TIMER, IDLE} = {}
          /\ "wait_for_next_period" \notin out[IDLE])

\* C11, its case: SamplingTask has stored a sample, both readers have copied
\* it out, the Timer task and the Idle task have run, and the cell still
\* holds the sample
StoredLoadedAndLeft ==
    /\ Len(stored) = 1
    /\ global_acc_data = stored[1].val
    /\ \A r \in Readers : last_load[r].stamp.z = 1
    /\ time >= 1
    /\ pc[IDLE] = "loop"

LoopPositions ==
    {"wait", "take", "copy_x", "copy_y", "copy_z", "release", "display", "post",
     "draw"}

\* C12: a periodic task that has entered its loop is at a position of the
\* loop for ever and never back before it; and under the fair scheduling of
\* SpecFair every created task enters its loop, and every task whose period
\* has expired runs its body to the end and waits for its next period again.
NoTerminalState ==
    /\ [](\A t \in PeriodicTasks : pc[t] \in {"none", "start"} \cup LoopPositions)
    /\ [][\A t \in PeriodicTasks :
             pc[t] \in LoopPositions => pc'[t] \in LoopPositions]_vars
    /\ \A t \in PeriodicTasks :
          /\ (Running /\ pc[t] = "start") ~> (pc[t] = "wait")
          /\ (Running /\ expired[t]) ~> (pc[t] = "wait" /\ ~expired[t])

\* C12, its case: each of the four tasks has run its body twice and waits
\* for its next period
AllWaitingAgain ==
    \A t \in PeriodicTasks : turns[t] = 2 /\ pc[t] = "wait" /\ ~expired[t]

\* C13: main is at its call of accelerometer_init only once the sensor is
\* open, and past it only once the sensor is initialized; as long as the
\* sensor is not both, no task exists and multitasking is not started; a
\* call that fails leaves main at the same call; and tasks take steps only
\* once multitasking is started.
SensorReadyBeforeTasks ==
    /\ [](/\ mainpc = "acc_init" => accelerometer \in {"open", "init_failed"}
          /\ mainpc \in {"create", "tsw_on", "running"} => accelerometer = "ready"
          /\ accelerometer # "ready" =>
                /\ \A t \in Tasks : pc[t] = "none"
                /\ mainpc \in {"button", "open_dev", "acc_init"}
          /\ accelerometer = "open_failed" => mainpc = "open_dev"
          /\ accelerometer = "init_failed" => mainpc = "acc_init")
    /\ [][(\E t \in Tasks : pc[t] # "none" /\ Stepped(t))
            => (Running /\ accelerometer = "ready")]_vars

\* C13, its case: accelerometer_open_dev has succeeded,
\* accelerometer_init has just failed, and main is at that call again with
\* no task created
InitFailedNoTask ==
    /\ accelerometer = "init_failed"
    /\ mainpc = "acc_init"
    /\ \A t \in Tasks : pc[t] = "none"

\* C14: once FilterTask has loaded ten samples, and but in the middle of a
\* copy, the ten slots of acc_array hold its ten latest loads, the k-th
\* latest in the slot k places behind the latest one's, so that each load
\* has replaced the oldest; the slot written last is the one before counter
\* once the turn is over; the average is taken over these ten values; and
\* after the loads (1,2,3), ..., (28,29,30), (31,32,33) the buffer holds
\* (31,32,33) where (1,2,3) was and the average of x is 17.
BufferHoldsLastTen ==
    /\ (Len(loaded) >= FilterLen /\ pc[TASK_ACC_FILTER] \notin {"copy_y", "copy_z"}) =>
          /\ \A k \in 0..(FilterLen - 1) :
                acc_array[(Len(loaded) - 1 - k) % FilterLen] = loaded[Len(loaded) - k]
          /\ pc[TASK_ACC_FILTER] \in {"wait", "take", "copy_x"} =>
                counter = Len(loaded) % FilterLen
          /\ Averaged =>
                /\ IsTruncQuot(AxisSum(acc_array, "x", FilterLen), FilterLen, avg_x)
                /\ IsTruncQuot(AxisSum(acc_array, "y", FilterLen), FilterLen, avg_y)
                /\ IsTruncQuot(AxisSum(acc_array, "z", FilterLen), FilterLen, avg_z)
    /\ (SeriesLoaded /\ Len(loaded) = FilterLen + 1 /\ loaded[FilterLen + 1] = Smp(FilterLen + 1)
            /\ Averaged) =>
          /\ acc_array[0] = Smp(FilterLen + 1)
          /\ \A i \in 0..(FilterLen - 1) : acc_array[i] # Smp(1)
          /\ avg_x = 17

\* C14, its case: FilterTask has loaded (1,2,3), ..., (28,29,30) and then
\* (31,32,33), and has averaged
EleventhInSeriesAveraged ==
    /\ SeriesLoaded
    /\ Len(loaded) = FilterLen + 1
    /\ loaded[FilterLen + 1] = Smp(FilterLen + 1)
    /\ Averaged
    /\ avg_x = 17

\* C15: sampled_ten_times changes only from false to true, in the step that
\* ends the execution of FilterTask begun with counter at 9 for the first
\* time (its 10th), and that step clears the region of the averages; the
\* region is cleared in no other step, so once over a run; the flag is set
\* from the 10th execution on, whatever the counter does afterwards.
PrimedOnceAtFirstWrap ==
    /\ [][/\ sampled_ten_times' # sampled_ten_times =>
                /\ ~sampled_ten_times /\ sampled_ten_times'
                /\ counter = FilterLen - 1 /\ counter' = 0
                /\ turns'[TASK_ACC_FILTER] = FilterLen
                /\ clears'.average = 1
                /\ "clear_screen_range average" \in out'[TASK_ACC_FILTER]
          /\ clears'.average # clears.average =>
                sampled_ten_times' # sampled_ten_times
          /\ ("clear_screen_range average" \in out'[TASK_ACC_FILTER]
                    /\ Stepped(TASK_ACC_FILTER)) =>
                sampled_ten_times' # sampled_ten_times]_vars
    /\ [](/\ sampled_ten_times <=> turns[TASK_ACC_FILTER] >= FilterLen
          /\ clears.average = IF sampled_ten_times THEN 1 ELSE 0)

\* C15, its case: the counter has wrapped a second time, and the region has
\* been cleared once
SecondWrapNoClear ==
    /\ turns[TASK_ACC_FILTER] = 2 * FilterLen
    /\ counter = 0
    /\ sampled_ten_times
    /\ clears.average = 1
    /\ Averaged

\* the sum of field f over the slots `slots` of acc_array
RECURSIVE SlotSum(_, _)
SlotSum(slots, f) ==
    IF slots = {} THEN 0
    ELSE LET i == CHOOSE j \in slots : TRUE
         IN acc_array[i][f] + SlotSum(slots \ {i}, f)

AllSlots == 0..(FilterLen - 1)

\* the averages as the record of the three axes
Avg == [x |-> avg_x, y |-> avg_y, z |-> avg_z]

\* C16: for every buffer whose fields are in the int16_t range, the sum of
\* each axis is within -327680..327670, so within the range of int, and once
\* FilterTask has averaged, the average of each axis is the quotient of the
\* sum of that axis alone by 10, truncated toward zero; a sum of -15 gives -1.
AverageTruncatesAndFits ==
    /\ \A i \in AllSlots : \A f \in Fields :
          acc_array[i][f] >= Int16Min /\ acc_array[i][f] <= Int16Max
    /\ \A f \in Fields :
          /\ SlotSum(AllSlots, f) >= -327680
          /\ SlotSum(AllSlots, f) <= 327670
          /\ SlotSum(AllSlots, f) >= -2147483647
          /\ SlotSum(AllSlots, f) <= 2147483647
          /\ Averaged =>
                /\ IsTruncQuot(SlotSum(AllSlots, f), FilterLen, Avg[f])
                /\ SlotSum(AllSlots, f) = -15 => Avg[f] = -1

\* C16, its case: FilterTask has averaged a buffer whose x sum to -15, whose
\* y are all 32767 and whose z are all -32768
AveragedExtremes ==
    /\ Averaged
    /\ SlotSum(AllSlots, "x") = -15
    /\ avg_x = -1
    /\ SlotSum(AllSlots, "y") = 327670
    /\ avg_y = 32767
    /\ SlotSum(AllSlots, "z") = -327680
    /\ avg_z = -32768

\* the periods task t has been armed for without its wait returning
Skipped(t) == IF Armed(t) THEN period - runs[t] ELSE 0

\* C17: each return of a task's wait is followed by one turn of its body and
\* no more before the next wait; a period that a task has missed is not made
\* up for, the returns of the waits falling short of the periods by the
\* misses at least; FilterTask's counter is in 0..9 and its completed turns
\* modulo 10, PlottingTask's in 0..4 and its completed turns modulo 5, each
\* changing only by one step forward at the end of a turn; and FilterTask
\* writes one slot per turn, the slot at its counter.
OneBodyPerReturn ==
    /\ [](/\ \A t \in PeriodicTasks :
                /\ runs[t] <= period
                /\ turns[t] = IF pc[t] \in LoopPositions \ {"wait"}
                              THEN runs[t] - 1
                              ELSE runs[t]
          /\ Skipped(TASK_TIMER) + Skipped(TASK_ACC) + Skipped(TASK_ACC_FILTER)
                + Skipped(TASK_PLOT) >= lates
          /\ counter \in 0..(FilterLen - 1)
          /\ counter = turns[TASK_ACC_FILTER] % FilterLen
          /\ plot_counter \in 0..(PlotLen - 1)
          /\ plot_counter = turns[TASK_PLOT] % PlotLen
          /\ Len(loaded) = IF pc[TASK_ACC_FILTER] \in {"release", "post"}
                           THEN turns[TASK_ACC_FILTER] + 1
                           ELSE turns[TASK_ACC_FILTER])
    /\ [][/\ counter' # counter =>
                /\ counter' = (counter + 1) % FilterLen
                /\ turns'[TASK_ACC_FILTER] = turns[TASK_ACC_FILTER] + 1
          /\ plot_counter' # plot_counter =>
                /\ plot_counter' = (plot_counter + 1) % PlotLen
                /\ turns'[TASK_PLOT] = turns[TASK_PLOT] + 1
          /\ \A t \in PeriodicTasks :
                turns'[t] # turns[t] =>
                    turns'[t] = turns[t] + 1 /\ pc'[t] = "wait"
          /\ \A i \in 0..(FilterLen - 1) :
                acc_array'[i] # acc_array[i] =>
                    i = counter /\ pc[TASK_ACC_FILTER] \in {"copy_x", "copy_y", "copy_z"}]_vars

\* C17, its case: FilterTask has missed a deadline, has run its body once
\* for the period it was released into and waits again, a period behind, its
\* counter one step on
MissedThenOneBody ==
    /\ deadline[TASK_ACC_FILTER] = 1
    /\ pc[TASK_ACC_FILTER] = "wait"
    /\ ~expired[TASK_ACC_FILTER]
    /\ period = 3
    /\ turns[TASK_ACC_FILTER] = 2
    /\ counter = 2
    /\ Len(loaded) = 2

Drawn == "draw_filled_circle" \in out[TASK_PLOT]

\* C18: the point PlottingTask draws is at column 205 + 5 * c, c the value
\* of its counter in that execution, so at one of 205, 210, 215, 220, 225,
\* and at row 180 - q, q the quotient by 8, truncated toward zero, of the z
\* it has loaded in that execution; the row is above 180 for z >= 8, below
\* for z <= -8, at 180 between; and the row never increases with z.
PointFollowsZ ==
    /\ Drawn =>
          LET z == last_load[TASK_PLOT].val.z
              c == (turns[TASK_PLOT] - 1) % 5
          IN /\ z = global_acc_data.z
             /\ last_load[TASK_PLOT].period = period
             /\ plot_pt[1] = 205 + 5 * c
             /\ plot_pt[1] \in {205, 210, 215, 220, 225}
             /\ IsTruncQuot(z, 8, 180 - plot_pt[2])
             /\ z >= 8 => plot_pt[2] < 180
             /\ z <= -8 => plot_pt[2] > 180
             /\ (z > -8 /\ z < 8) => plot_pt[2] = 180
    /\ \A z1 \in PlotZs : \A z2 \in PlotZs :
          z1 <= z2 => PlotY(z1) >= PlotY(z2)

\* C18, its case: PlottingTask has loaded z = -9 with its counter at 4 and
\* has drawn the point at (225, 181)
DrawnBelowBaseline ==
    /\ Drawn
    /\ last_load[TASK_PLOT].val.z = -9
    /\ plot_pt = <<225, 181>>

\* the triples accelerometer_receive has returned and SamplingTask has stored
Received == {Measured(Smp(i)) : i \in 1..Len(stored)}

\* C19: every triple FilterTask or PlottingTask has loaded is the initial
\* all-zero content of global_acc_data, loaded when SamplingTask had stored
\* nothing yet, or a triple that accelerometer_receive had returned and
\* SamplingTask had stored by then; every store of SamplingTask is of such a
\* triple; and in the loads of FilterTask, which are what its buffer holds,
\* the initial content comes before any sample.
LoadsAreInitialOrReceived ==
    /\ \A i \in 1..Len(stored) : stored[i].val = Measured(Smp(i))
    /\ \A r \in Readers :
          last_load[r] # NoLoad =>
              LET l == last_load[r] IN
                  /\ l.stores <= Len(stored)
                  /\ l.stores = 0 => l.val = ZeroSample /\ l.stamp.z = 0
                  /\ l.stores >= 1 =>
                        /\ l.val \in {Measured(Smp(i)) : i \in 1..l.stores}
                        /\ l.val # ZeroSample
                        /\ l.stamp.z >= 1
    /\ \A j \in 1..Len(loaded) :
          /\ loaded[j] \in {ZeroSample} \cup Received
          /\ loaded[j] = ZeroSample => \A i \in 1..j : loaded[i] = ZeroSample
          /\ acc_array[(j - 1) % FilterLen] \in {ZeroSample} \cup Received

\* C19, its case: FilterTask has loaded the initial content in the first
\* period, before SamplingTask's first store, and the first sample in the
\* second
ZeroThenSample ==
    /\ Len(loaded) = 2
    /\ loaded[1] = ZeroSample
    /\ acc_array[0] = ZeroSample
    /\ Len(stored) >= 1
    /\ loaded[2] = stored[1].val
    /\ acc_array[1] = Measured(Smp(1))

\* the three things a FilterTask execution can put on the display after its
\* label
FilterOutcomes ==
    {"tty_print sampling...", "clear_screen_range average", "int_print average"}

\* FilterTask completes an execution of its loop body in this step
FilterExecuted ==
    pc[TASK_ACC_FILTER] = "post" /\ pc'[TASK_ACC_FILTER] = "wait"

\* C20: every FilterTask execution does exactly one of three things: it
\* renders the "sampling..." indicator, or it primes the buffer and clears
\* the region, or it computes and renders an average. The execution that
\* primes the buffer does the clear only and leaves the averages alone, an
\* average is rendered by the executions that start primed and by no other,
\* and no execution that starts or ends primed renders the indicator.
ExactlyOneFilterOutcome ==
    [][FilterExecuted =>
          LET done == out'[TASK_ACC_FILTER] \cap FilterOutcomes
              primes == ~sampled_ten_times /\ sampled_ten_times'
          IN  /\ Cardinality(done) = 1
              /\ primes <=> done = {"clear_screen_range average"}
              /\ primes => clears'.average = clears.average + 1
              /\ ~primes => clears' = clears
              /\ sampled_ten_times <=> done = {"int_print average"}
              /\ ~sampled_ten_times =>
                    avg_x' = avg_x /\ avg_y' = avg_y /\ avg_z' = avg_z
              /\ sampled_ten_times' => "tty_print sampling..." \notin done
              /\ sampled_ten_times => sampled_ten_times'
              /\ done = {"tty_print sampling..."} =>
                    ~sampled_ten_times' /\ counter # FilterLen - 1]_vars

\* C20, its case: the execution that primed the buffer has just ended, with
\* the region cleared, no indicator and no average on the display
PrimingExecutionDone ==
    /\ pc[TASK_ACC_FILTER] = "wait"
    /\ turns[TASK_ACC_FILTER] = FilterLen
    /\ sampled_ten_times
    /\ counter = 0
    /\ out[TASK_ACC_FILTER] \cap FilterOutcomes = {"clear_screen_range average"}
    /\ avg_x = 0 /\ avg_y = 0 /\ avg_z = 0
====
